---- MODULE Spec2Model ----
(***************************************************************************)
(* Model of the wsgi layer: the reactive handlers of reactive/wsgi.py and  *)
(* the helpers of reactive/lib/helpers.py.                                 *)
(*                                                                         *)
(* Text is modelled as a sequence of one-character strings, a file as the  *)
(* text it holds, a Python dict as a sequence of <<key, value>> pairs in   *)
(* insertion order, and Python's None as <<"None">>, which is no text (a   *)
(* text holds one-character strings only).                                 *)
(*                                                                         *)
(* One handler runs at a time.  A hook handler runs when its event is      *)
(* delivered; a @when_all handler is called by the dispatcher at some      *)
(* moment at which no handler runs and its flags are set.  The pass of     *)
(* start_application_service is split at the calls that can raise; pc is   *)
(* its position and "idle" when no pass runs.  error is the exception the  *)
(* last handler of this layer raised, "none" when it returned.             *)
(***************************************************************************)
EXTENDS Integers, Sequences, FiniteSets, TLC

None == <<"None">>

\* ------------------------------------------------------------------ text
Letters ==
    {"a","b","c","d","e","f","g","h","i","j","k","l","m",
     "n","o","p","q","r","s","t","u","v","w","x","y","z",
     "A","B","C","D","E","F","G","H","I","J","K","L","M",
     "N","O","P","Q","R","S","T","U","V","W","X","Y","Z"}

Digits == {"0","1","2","3","4","5","6","7","8","9"}

\* [a-zA-Z_] and [a-zA-Z0-9_] of the pattern in get_env and set_env_values
IdentStart == Letters \cup {"_"}

IdentChar == Letters \cup Digits \cup {"_"}

\* the characters str.strip() and str.split() treat as whitespace
Whitespace == {" ", "\t", "\n", "\r", "\f"}

\* position of the first c in text, 0 when there is none
IndexOf(text, c) ==
    IF \E i \in 1..Len(text) : text[i] = c
    THEN CHOOSE i \in 1..Len(text) :
             text[i] = c /\ \A j \in 1..(i - 1) : text[j] # c
    ELSE 0

\* text[from:] of Python, from counted from 1
Tail_from(text, from) == SubSeq(text, from, Len(text))

\* str.startswith
startswith(text, prefix) ==
    /\ Len(prefix) <= Len(text)
    /\ SubSeq(text, 1, Len(prefix)) = prefix

\* file.readlines(): each line keeps its "\n"; a last line without one is kept
RECURSIVE readlines(_)
readlines(text) ==
    IF text = <<>> THEN <<>>
    ELSE LET i == IndexOf(text, "\n")
         IN  IF i = 0 THEN <<text>>
             ELSE <<SubSeq(text, 1, i)>> \o readlines(Tail_from(text, i + 1))

\* file.writelines(): the lines one after the other, nothing added
RECURSIVE writelines(_)
writelines(lines) ==
    IF lines = <<>> THEN <<>> ELSE Head(lines) \o writelines(Tail(lines))

RECURSIVE lstrip(_)
lstrip(text) ==
    IF text # <<>> /\ Head(text) \in Whitespace THEN lstrip(Tail(text)) ELSE text

RECURSIVE rstrip(_)
rstrip(text) ==
    IF text # <<>> /\ text[Len(text)] \in Whitespace
    THEN rstrip(SubSeq(text, 1, Len(text) - 1))
    ELSE text

\* str.strip()
strip(text) == lstrip(rstrip(text))

\* str.split(sep) for a one-character sep: a sequence of texts
RECURSIVE split_on(_, _)
split_on(text, sep) ==
    LET i == IndexOf(text, sep)
    IN  IF i = 0 THEN <<text>>
        ELSE <<SubSeq(text, 1, i - 1)>> \o split_on(Tail_from(text, i + 1), sep)

\* str.split(sep, 1): <<before the first sep, after it>>; the text has a sep
split_once(text, sep) ==
    LET i == IndexOf(text, sep)
    IN  <<SubSeq(text, 1, i - 1), Tail_from(text, i + 1)>>

\* str.split(): the maximal runs of non-whitespace characters
RECURSIVE split_whitespace(_)
split_whitespace(text) ==
    LET t == lstrip(text)
    IN  IF t = <<>> THEN <<>>
        ELSE LET stops == {i \in 1..Len(t) : t[i] \in Whitespace}
                 n == IF stops = {} THEN Len(t) + 1
                      ELSE CHOOSE i \in stops : \A j \in stops : i <= j
             IN  <<SubSeq(t, 1, n - 1)>> \o split_whitespace(Tail_from(t, n))

\* re.match(r"^[a-zA-Z_]+[a-zA-Z0-9_]*=", line)
is_variable_line(line) ==
    \E n \in 2..Len(line) :
        /\ line[n] = "="
        /\ line[1] \in IdentStart
        /\ \A j \in 2..(n - 1) : line[j] \in IdentChar

\* ------------------------------------------------------------------ dict
dict_keys(d) == {d[i][1] : i \in 1..Len(d)}

dict_has(d, key) == key \in dict_keys(d)

dict_get(d, key) ==
    IF dict_has(d, key)
    THEN d[CHOOSE i \in 1..Len(d) : d[i][1] = key][2]
    ELSE None

\* d[key] = value: a present key keeps its place, a new key goes last
dict_set(d, key, value) ==
    IF dict_has(d, key)
    THEN [i \in 1..Len(d) |-> IF d[i][1] = key THEN <<key, value>> ELSE d[i]]
    ELSE Append(d, <<key, value>>)

\* ----------------------------------------------------- environment store
\* "{key}={value}\n".format(...)
format_line(key, value) == key \o <<"=">> \o value \o <<"\n">>

\* the key of a line as get_env and set_env_values parse it, None otherwise
line_key(line) ==
    IF is_variable_line(line) THEN split_once(strip(line), "=")[1] ELSE None

RECURSIVE env_of_lines(_, _)
env_of_lines(lines, env_vars) ==
    IF lines = <<>> THEN env_vars
    ELSE LET env_line == Head(lines)
         IN  IF is_variable_line(env_line)
             THEN LET kv == split_once(strip(env_line), "=")
                  IN  env_of_lines(Tail(lines), dict_set(env_vars, kv[1], kv[2]))
             ELSE env_of_lines(Tail(lines), env_vars)

get_env(content) == env_of_lines(readlines(content), <<>>)

\* the first loop of set_env_values: a line whose key is incoming is rewritten
merged_lines(lines, incoming_variables) ==
    [i \in 1..Len(lines) |->
        LET key == line_key(lines[i])
        IN  IF key # None /\ dict_has(incoming_variables, key)
            THEN format_line(key, dict_get(incoming_variables, key))
            ELSE lines[i]]

\* the keys the first loop appended to found
found_keys(lines, incoming_variables) ==
    {line_key(lines[i]) : i \in 1..Len(lines)} \cap dict_keys(incoming_variables)

\* the second loop of set_env_values as it would be without its test of found
appended_lines_ignores_found(incoming_variables, found) ==
    [i \in 1..Len(incoming_variables) |->
        format_line(incoming_variables[i][1], incoming_variables[i][2])]

\* the second loop of set_env_values: the keys not found, in dict order
RECURSIVE appended_lines(_, _)
appended_lines(incoming_variables, found) ==
    IF incoming_variables = <<>> THEN <<>>
    ELSE LET kv == Head(incoming_variables)
             rest == appended_lines(Tail(incoming_variables), found)
         IN  IF kv[1] \notin found
             THEN <<format_line(kv[1], kv[2])>> \o rest
             ELSE rest

\* the lines set_env_values writes and returns
set_env_lines(content, incoming_variables) ==
    LET lines == readlines(content)
    IN  merged_lines(lines, incoming_variables)
            \o appended_lines(incoming_variables,
                              found_keys(lines, incoming_variables))

\* the file after set_env_values(filepath, incoming_variables)
set_env_values(content, incoming_variables) ==
    writelines(set_env_lines(content, incoming_variables))

\* delete_env_value as it would be if it wrote back every line it read
delete_env_value_keeps_all(content, target_key) ==
    writelines(readlines(content))

\* delete_env_value as it would be if it wrote back no line at all
delete_env_value_writes_nothing(content, target_key) ==
    writelines(<<>>)

\* the loop of delete_env_value as it would be if it tested target_key
\* without the "="
delete_env_lines_any_prefix(content, target_key) ==
    SelectSeq(readlines(content),
              LAMBDA env_line : ~startswith(env_line, target_key))

\* the lines delete_env_value writes and returns
delete_env_lines(content, target_key) ==
    SelectSeq(readlines(content),
              LAMBDA env_line : ~startswith(env_line, target_key \o <<"=">>))

\* the file after delete_env_value(filepath, target_key)
delete_env_value(content, target_key) ==
    writelines(delete_env_lines(content, target_key))

\* demote(user)(): the ids of a root process after demotion() has run in it:
\* os.setgid(user.pw_uid), then os.setuid(user.pw_gid)
demote(passwd, process) ==
    LET after_setgid == [process EXCEPT !.gid = passwd.pw_uid]
    IN  [after_setgid EXCEPT !.uid = passwd.pw_gid]

\* the ValueError of unpacking declaration.split('=') into two names
ValueError == <<"ValueError">>

\* variables_from_string: a dict, or ValueError when a declaration does not
\* split into exactly two parts on "="
RECURSIVE variables_of(_, _)
variables_of(declarations, variables) ==
    IF declarations = <<>> THEN variables
    ELSE LET parts == split_on(Head(declarations), "=")
         IN  IF Len(parts) # 2 THEN ValueError
             ELSE variables_of(Tail(declarations),
                               dict_set(variables, parts[1], parts[2]))

variables_from_string(variables_string) ==
    variables_of(split_whitespace(variables_string), <<>>)

\* ------------------------------------------------------------- literals
s_DATABASE_URL == <<"D","A","T","A","B","A","S","E","_","U","R","L">>

s_postgresql == <<"p","o","s","t","g","r","e","s","q","l">>

s_mongodb == <<"m","o","n","g","o","d","b">>

s_None == <<"N","o","n","e">>

\* --------------------------------------------------------- database URL
\* bool(x) of a text or None
truthy(x) == x # None /\ x # <<>>

\* "{}".format(x) of a text or None
str(x) == IF x = None THEN s_None ELSE x

\* build_url_host as it would be with the password test outside the
\* username test
build_url_host_password_alone(domain, port, username, password) ==
    LET host == IF truthy(port)
                THEN str(domain) \o <<":">> \o str(port)
                ELSE domain
        credentials == IF truthy(password)
                       THEN str(username) \o <<":">> \o str(password)
                       ELSE username
    IN  IF truthy(username) \/ truthy(password)
        THEN str(credentials) \o <<"@">> \o str(host)
        ELSE host

\* helpers.build_url_host
build_url_host(domain, port, username, password) ==
    LET host == IF truthy(port)
                THEN str(domain) \o <<":">> \o str(port)
                ELSE domain
        credentials == IF truthy(password)
                       THEN str(username) \o <<":">> \o str(password)
                       ELSE username
    IN  IF truthy(username)
        THEN str(credentials) \o <<"@">> \o str(host)
        ELSE host

\* urlunparse as it would be if it put a "/" before an empty path too
urlunparse_slash_before_empty_path(scheme, netloc, url) ==
    LET path == IF url = <<>> \/ Head(url) # "/" THEN <<"/">> \o url ELSE url
        rest == IF truthy(netloc) THEN <<"/", "/">> \o netloc \o path ELSE url
    IN  IF truthy(scheme) THEN scheme \o <<":">> \o rest ELSE rest

\* urllib.parse.urlunparse((scheme, netloc, url, None, None, None)) for a
\* scheme that is not in urllib's uses_netloc ("postgresql" and "mongodb"
\* are not): "//" and the netloc are written only for a non-empty netloc,
\* and a "/" is put before a non-empty path that has none.
urlunparse(scheme, netloc, url) ==
    LET path == IF url # <<>> /\ Head(url) # "/" THEN <<"/">> \o url ELSE url
        rest == IF truthy(netloc) THEN <<"/", "/">> \o netloc \o path ELSE url
    IN  IF truthy(scheme) THEN scheme \o <<":">> \o rest ELSE rest

\* dict.get(key) and dict.get(key, default) of a relation record
relation_get(relation, key, default) ==
    IF key \in DOMAIN relation THEN relation[key] ELSE default

\* x or y of Python
py_or(x, y) == IF truthy(x) THEN x ELSE y

\* the database_url of lines 147-162 of wsgi.py
database_url(db_scheme, db_relation) ==
    LET db_host == py_or(relation_get(db_relation, "host", None),
                         relation_get(db_relation, "hostname", None))
        db_port == relation_get(db_relation, "port", None)
    IN  urlunparse(db_scheme,
                   build_url_host(db_host, db_port,
                                  relation_get(db_relation, "user", None),
                                  relation_get(db_relation, "password", None)),
                   relation_get(db_relation, "database", <<>>))

\* resolve_relation as it would be with the two tests in the other order
resolve_relation_mongo_first(postgres, mongo) ==
    IF mongo # <<>> THEN <<s_mongodb, <<mongo[1]>> >>
    ELSE IF postgres # <<>> THEN <<s_postgresql, <<postgres[1]>> >>
    ELSE <<None, <<>> >>

\* lines 135-144 of wsgi.py: <<db_scheme, db_relation>>; db_relation is a
\* sequence holding the record, and the empty sequence for Python's None
resolve_relation(postgres, mongo) ==
    IF postgres # <<>> THEN <<s_postgresql, <<postgres[1]>> >>
    ELSE IF mongo # <<>> THEN <<s_mongodb, <<mongo[1]>> >>
    ELSE <<None, <<>> >>

\* bool(db_relation): None and the empty dict are false
relation_truthy(db_relation) ==
    db_relation # <<>> /\ DOMAIN db_relation[1] # {}

\* ------------------------------------------------------------ the world
\* most records of one kind the relation events of Spec attach
MaxAttached == 1

\* most records of one kind a pass of ResolveSpec resolves
MaxRelations == 2

\* range(0, 10) of the health loop
MaxAttempts == 10

\* relation records as relations_of_type returns them: the unit's settings
\* and "__unit__", so that no record is an empty dict
AttachedRecords ==
    { [__unit__ |-> <<"a">>, host |-> <<"d","b","1">>,
       port |-> <<"5","4","3","2">>, user |-> <<"a","p","p">>],
      [__unit__ |-> <<"b">>, hostname |-> <<"h">>, user |-> <<"u">>,
       password |-> <<"p">>, database |-> <<"d">>] }

RelationRecords ==
    AttachedRecords \cup
    { [__unit__ |-> <<"c">>, host |-> <<>>, hostname |-> <<"h","2">>,
       port |-> <<"2","7","0","1","7">>] }

\* the lists relations_of_type can return: one record per unit
ListsOf(records, n) ==
    UNION { { l \in [1..k -> records] :
                \A i, j \in 1..k : i # j => l[i] # l[j] }
            : k \in 0..n }

AttachedLists == ListsOf(AttachedRecords, MaxAttached)

RelationLists == ListsOf(RelationRecords, MaxRelations)

\* config('port')
Ports == {8080}

\* /etc/environment before the charm is installed
InitialFiles ==
    { <<>>,
      <<"D","A","T","A","B","A","S","E","_","U","R","L","=","o","l","d","\n">>,
      <<"L","A","N","G","=","C">> }

\* config('environment_variables')
EnvironmentStrings ==
    { <<>>,
      <<"L","A","N","G","=","e","n">>,
      <<"D","E","B","U","G">> }

\* the passwd entries get_user can return for layer_config['username']
Users ==
    { [pw_uid |-> 1000, pw_gid |-> 1000],
      [pw_uid |-> 1001, pw_gid |-> 1002] }

LayerUser == [pw_uid |-> 1001, pw_gid |-> 1002]

\* hooks run as root
HookProcess == [uid |-> 0, gid |-> 0]

\* no helper has been called directly
NoCall == <<"none", <<>>, <<>> >>

\* what an open(), a write or a command of a handler can do
Outcomes == {"ok", "CalledProcessError", "OSError"}

\* a failed rewrite of the file fails before the file is truncated
\* ("unchanged") or after it ("truncated")
WriteOutcomes == {"ok", "unchanged", "truncated"}

WsgiFlags ==
    {"wsgi.system.ready", "wsgi.configured", "wsgi.source.available",
     "wsgi.ready", "wsgi.available"}

\* ------------------------------------------------------------- the state
VARIABLES
    states,              \* the flags of charms.reactive that are set
    env_file,            \* the text of /etc/environment
    port,                \* config('port')
    postgres_relations,  \* relations_of_type('postgres')
    mongo_relations,     \* relations_of_type('mongo')
    provision_command,   \* whether layer_config has a provision_command
    pc,                  \* where start_application_service stands
    attempt,             \* the loop variable of the health loop
    service_responding,  \* the local of that name
    observed,            \* the values of the health predicate, in order
    sleeps,              \* the calls of sleep(6) of the running pass
    service_started,     \* service_start or service_reload has succeeded
    announced,           \* the port last given to http.configure, if any
    error,               \* the exception the last handler raised, or None
    user,                \* get_user(layer_config['username']): pw_uid, pw_gid
    child,               \* uid and gid of the running provisioning command
    called               \* the helper last called directly: name, args, result

vars ==
    <<states, env_file, port, postgres_relations, mongo_relations,
      provision_command, pc, attempt, service_responding, observed, sleeps,
      service_started, announced, error, user, child, called>>

world == <<port, postgres_relations, mongo_relations, provision_command>>

locals == <<attempt, service_responding, observed, sleeps>>

aside == <<user, child, called>>

set_state(flags, flag) == flags \cup {flag}

remove_state(flags, flag) == flags \ {flag}

all_states(flags, wanted) == wanted \subseteq flags

\* the guard of start_application_service and of database_attached
StartGuard ==
    all_states(states,
        {"wsgi.configured", "wsgi.system.ready", "wsgi.source.available"})

Init ==
    /\ states = {}
    /\ env_file \in InitialFiles
    /\ port \in Ports
    /\ postgres_relations = <<>>
    /\ mongo_relations = <<>>
    /\ provision_command \in BOOLEAN
    /\ pc = "idle"
    /\ attempt = 0
    /\ service_responding = FALSE
    /\ observed = <<>>
    /\ sleeps = 0
    /\ service_started = FALSE
    /\ announced = {}
    /\ error = "none"
    /\ user = LayerUser
    /\ child = {}
    /\ called = NoCall

\* the file after a rewrite to new_content with outcome io
written(io, new_content) ==
    CASE io = "ok" -> new_content
      [] io = "unchanged" -> env_file
      [] io = "truncated" -> <<>>

\* ------------------------------------------------------- the hook handlers
\* @hook('install', 'upgrade-charm')
system_dependencies(outcome) ==
    /\ pc = "idle"
    /\ IF outcome = "ok"
       THEN /\ states' = set_state(states, "wsgi.system.ready")
            /\ error' = "none"
       ELSE /\ error' = outcome
            /\ UNCHANGED states
    /\ UNCHANGED <<env_file, world, pc, locals, service_started, announced>>
    /\ UNCHANGED aside

\* @hook('config-changed'), run with the configuration the operator has set
configure_dependencies(new_port, variables_string, apt, io) ==
    /\ pc = "idle"
    /\ port' = new_port
    /\ LET variables == variables_from_string(variables_string)
       IN  IF apt # "ok"
           THEN /\ error' = apt
                /\ UNCHANGED <<states, env_file>>
           ELSE IF variables = ValueError
           THEN /\ error' = "ValueError"
                /\ UNCHANGED <<states, env_file>>
           ELSE /\ env_file' = written(io, set_env_values(env_file, variables))
                /\ IF io = "ok"
                   THEN /\ states' = set_state(states, "wsgi.configured")
                        /\ error' = "none"
                   ELSE /\ error' = "OSError"
                        /\ UNCHANGED states
    /\ UNCHANGED <<postgres_relations, mongo_relations, provision_command,
                   pc, locals, service_started, announced>>
    /\ UNCHANGED aside

\* begin_pass as it would be without remove_state('wsgi.source.available')
begin_pass_keeps_source_available ==
    /\ states' = remove_state(states, "wsgi.available")
    /\ pc' = "pip"
    /\ error' = "none"
    /\ attempt' = 0
    /\ service_responding' = FALSE
    /\ observed' = <<>>
    /\ sleeps' = 0

\* begin_pass as it would be without remove_state('wsgi.available')
begin_pass_keeps_available ==
    /\ states' = remove_state(states, "wsgi.source.available")
    /\ pc' = "pip"
    /\ error' = "none"
    /\ attempt' = 0
    /\ service_responding' = FALSE
    /\ observed' = <<>>
    /\ sleeps' = 0

\* begin_pass as it would be if it also removed wsgi.ready
begin_pass_clears_ready ==
    /\ states' = states \ {"wsgi.source.available", "wsgi.available",
                           "wsgi.ready"}
    /\ pc' = "pip"
    /\ error' = "none"
    /\ attempt' = 0
    /\ service_responding' = FALSE
    /\ observed' = <<>>
    /\ sleeps' = 0

\* lines 101-103 of wsgi.py: the first step of a pass
begin_pass ==
    /\ states' = remove_state(remove_state(states, "wsgi.source.available"),
                              "wsgi.available")
    /\ pc' = "pip"
    /\ error' = "none"
    /\ attempt' = 0
    /\ service_responding' = FALSE
    /\ observed' = <<>>
    /\ sleeps' = 0

\* database_attached as it would be without its all_states test
database_attached_unguarded(postgres, mongo) ==
    /\ pc = "idle"
    /\ postgres_relations' = postgres
    /\ mongo_relations' = mongo
    /\ states' = remove_state(remove_state(states, "wsgi.source.available"),
                              "wsgi.available")
    /\ pc' = "pip"
    /\ error' = "none"
    /\ UNCHANGED <<locals, env_file, port, provision_command,
                   service_started, announced>>
    /\ UNCHANGED aside

\* @hook('{mongo,postgres}-relation-{joined,changed,broken,departed}'), run
\* with the relation lists as the event has left them
database_attached(postgres, mongo) ==
    /\ pc = "idle"
    /\ postgres_relations' = postgres
    /\ mongo_relations' = mongo
    /\ IF StartGuard
       THEN begin_pass
       ELSE /\ error' = "none"
            /\ UNCHANGED <<states, pc, locals>>
    /\ UNCHANGED <<env_file, port, provision_command, service_started,
                   announced>>
    /\ UNCHANGED aside

\* @when_all('wsgi.configured', 'wsgi.system.ready', 'wsgi.source.available')
start_application_service ==
    /\ pc = "idle"
    /\ StartGuard
    /\ begin_pass
    /\ UNCHANGED <<env_file, world, service_started, announced>>
    /\ UNCHANGED aside

\* an exception leaves the handler
raise(exception) ==
    /\ pc' = "idle"
    /\ error' = exception
    /\ attempt' = 0
    /\ service_responding' = FALSE
    /\ observed' = <<>>
    /\ sleeps' = 0

\* install_application_dependencies as it would be without
\* set_state('wsgi.ready')
install_application_dependencies_sets_no_flag(requirements, outcome) ==
    /\ pc = "pip"
    /\ IF requirements /\ outcome # "ok"
       THEN raise(outcome) /\ UNCHANGED states
       ELSE /\ pc' = "database"
            /\ UNCHANGED <<states, locals, error>>
    /\ UNCHANGED <<env_file, world, service_started, announced>>
    /\ UNCHANGED aside

\* lines 105-131: pip3 install when there is a requirements.txt
install_application_dependencies(requirements, outcome) ==
    /\ pc = "pip"
    /\ IF requirements /\ outcome # "ok"
       THEN raise(outcome) /\ UNCHANGED states
       ELSE /\ states' = set_state(states, "wsgi.ready")
            /\ pc' = "database"
            /\ UNCHANGED <<locals, error>>
    /\ UNCHANGED <<env_file, world, service_started, announced>>
    /\ UNCHANGED aside

\* lines 133-163 and 175-177: the DATABASE_URL of the resolved relation is
\* stored, or the stored one is deleted
configure_database(io) ==
    /\ pc = "database"
    /\ LET resolved == resolve_relation(postgres_relations, mongo_relations)
           db_scheme == resolved[1]
           db_relation == resolved[2]
           new_content ==
               IF relation_truthy(db_relation)
               THEN set_env_values(env_file,
                        << <<s_DATABASE_URL,
                             database_url(db_scheme, db_relation[1])>> >>)
               ELSE delete_env_value(env_file, s_DATABASE_URL)
       IN  /\ env_file' = written(io, new_content)
           /\ IF io # "ok"
              THEN raise("OSError")
              ELSE /\ pc' = IF relation_truthy(db_relation) /\ provision_command
                            THEN "provision" ELSE "service"
                   /\ UNCHANGED <<locals, error>>
    /\ UNCHANGED <<states, world, service_started, announced>>
    /\ UNCHANGED aside

\* lines 165-174: check_call forks the provisioning command; preexec_fn runs
\* in the child, which starts with the ids of the hook
spawn_provision ==
    /\ pc = "provision"
    /\ pc' = "provisioning"
    /\ child' = {demote(user, HookProcess)}
    /\ UNCHANGED <<states, env_file, world, locals, service_started,
                   announced, error, user, called>>

\* lines 165-174: the provisioning command ends and check_call returns or
\* raises
provision_database(outcome) ==
    /\ pc = "provisioning"
    /\ child' = {}
    /\ IF outcome # "ok"
       THEN raise(outcome)
       ELSE pc' = "service" /\ UNCHANGED <<locals, error>>
    /\ UNCHANGED <<states, env_file, world, service_started, announced,
                   user, called>>

\* lines 179-210: open-port, the unit file, daemon-reload, start or reload
start_service(outcome) ==
    /\ pc = "service"
    /\ IF outcome # "ok"
       THEN raise(outcome) /\ UNCHANGED service_started
       ELSE /\ service_started' = TRUE
            /\ pc' = "health"
            /\ UNCHANGED <<locals, error>>
    /\ UNCHANGED <<states, env_file, world, announced>>
    /\ UNCHANGED aside

\* health_attempt as it would be with sleep(6) before the test
health_attempt_sleeps_first(running, open) ==
    /\ pc = "health"
    /\ attempt < MaxAttempts
    /\ observed' = Append(observed, running /\ open)
    /\ sleeps' = sleeps + 1
    /\ IF running /\ open
       THEN /\ service_responding' = TRUE
            /\ pc' = "verdict"
            /\ UNCHANGED attempt
       ELSE /\ attempt' = attempt + 1
            /\ pc' = IF attempt + 1 < MaxAttempts THEN "health" ELSE "verdict"
            /\ UNCHANGED service_responding
    /\ UNCHANGED <<states, env_file, world, service_started, announced, error>>
    /\ UNCHANGED aside

\* lines 214-221: one turn of the health loop
health_attempt(running, open) ==
    /\ pc = "health"
    /\ attempt < MaxAttempts
    /\ observed' = Append(observed, running /\ open)
    /\ IF running /\ open
       THEN /\ service_responding' = TRUE
            /\ pc' = "verdict"
            /\ UNCHANGED <<attempt, sleeps>>
       ELSE /\ sleeps' = sleeps + 1
            /\ attempt' = attempt + 1
            /\ pc' = IF attempt + 1 < MaxAttempts THEN "health" ELSE "verdict"
            /\ UNCHANGED service_responding
    /\ UNCHANGED <<states, env_file, world, service_started, announced, error>>
    /\ UNCHANGED aside

\* lines 223-230: wsgi.available, or socket.error
health_verdict ==
    /\ pc = "verdict"
    /\ IF service_responding
       THEN /\ states' = set_state(states, "wsgi.available")
            /\ error' = "none"
       ELSE /\ error' = "socket.error"
            /\ UNCHANGED states
    /\ pc' = "idle"
    /\ attempt' = 0
    /\ service_responding' = FALSE
    /\ observed' = <<>>
    /\ sleeps' = 0
    /\ UNCHANGED <<env_file, world, service_started, announced>>
    /\ UNCHANGED aside

\* @when_all('website.available')
send_port ==
    /\ pc = "idle"
    /\ "website.available" \in states
    /\ announced' = {port}
    /\ UNCHANGED <<states, env_file, world, pc, locals, service_started, error>>
    /\ UNCHANGED aside

\* ------------------------------------------------------- the other layers
\* the layer that stages the application sets wsgi.source.available
source_available ==
    /\ pc = "idle"
    /\ states' = set_state(states, "wsgi.source.available")
    /\ UNCHANGED <<env_file, world, pc, locals, service_started, announced,
                   error>>
    /\ UNCHANGED aside

\* the http interface sets website.available while a consumer is related
website_relation(related) ==
    /\ pc = "idle"
    /\ states' = IF related THEN set_state(states, "website.available")
                 ELSE remove_state(states, "website.available")
    /\ UNCHANGED <<env_file, world, pc, locals, service_started, announced,
                   error>>
    /\ UNCHANGED aside

\* ------------------------------------------------------ the specification
Install == \E outcome \in {"ok", "CalledProcessError"} : system_dependencies(outcome)

ConfigChanged ==
    \E new_port \in Ports, variables_string \in EnvironmentStrings,
       apt \in {"ok", "CalledProcessError"}, io \in WriteOutcomes :
        configure_dependencies(new_port, variables_string, apt, io)

DatabaseRelation ==
    \E postgres \in AttachedLists, mongo \in AttachedLists :
        /\ postgres = postgres_relations \/ mongo = mongo_relations
        /\ database_attached(postgres, mongo)

PipInstall ==
    \E requirements \in BOOLEAN, outcome \in Outcomes :
        install_application_dependencies(requirements, outcome)

ConfigureDatabase == \E io \in WriteOutcomes : configure_database(io)

ProvisionDatabase == \E outcome \in Outcomes : provision_database(outcome)

StartService == \E outcome \in Outcomes : start_service(outcome)

HealthAttempt == \E running, open \in BOOLEAN : health_attempt(running, open)

WebsiteRelation == \E related \in BOOLEAN : website_relation(related)

Next ==
    \/ Install
    \/ ConfigChanged
    \/ DatabaseRelation
    \/ source_available
    \/ start_application_service
    \/ PipInstall
    \/ ConfigureDatabase
    \/ spawn_provision
    \/ ProvisionDatabase
    \/ StartService
    \/ HealthAttempt
    \/ health_verdict
    \/ WebsiteRelation
    \/ send_port

Spec == Init /\ [][Next]_vars

\* ------------------------------------------------------------ scenario A
\* wsgi.system.ready and wsgi.configured are set, no database is related,
\* every command succeeds and the health predicate is true at once
ScenarioInit ==
    /\ states = {"wsgi.system.ready", "wsgi.configured"}
    /\ env_file \in InitialFiles
    /\ port \in Ports
    /\ postgres_relations = <<>>
    /\ mongo_relations = <<>>
    /\ provision_command \in BOOLEAN
    /\ pc = "idle"
    /\ attempt = 0
    /\ service_responding = FALSE
    /\ observed = <<>>
    /\ sleeps = 0
    /\ service_started = FALSE
    /\ announced = {}
    /\ error = "none"
    /\ user = LayerUser
    /\ child = {}
    /\ called = NoCall

ScenarioPip ==
    \E requirements \in BOOLEAN :
        install_application_dependencies(requirements, "ok")

ScenarioDatabase == configure_database("ok")

ScenarioService == start_service("ok")

ScenarioHealth == health_attempt(TRUE, TRUE)

ScenarioConsumer == website_relation(TRUE)

\* the steps of a pass: a handler runs to its end once it has been called,
\* and the dispatcher calls a handler whose flags are set
ScenarioPass ==
    \/ start_application_service
    \/ ScenarioPip
    \/ ScenarioDatabase
    \/ ScenarioService
    \/ ScenarioHealth
    \/ health_verdict

ScenarioNext ==
    \/ source_available
    \/ ScenarioConsumer
    \/ ScenarioPass
    \/ send_port

\* send_port is called in every dispatch in which website.available is set
ScenarioSpec ==
    /\ ScenarioInit
    /\ [][ScenarioNext]_vars
    /\ WF_vars(ScenarioPass)
    /\ SF_vars(send_port)

\* ------------------------------------------------ passes on any relations
\* a unit that is ready for a pass, with any relations attached
ResolveInit ==
    /\ states = {"wsgi.system.ready", "wsgi.configured", "wsgi.source.available"}
    /\ env_file \in InitialFiles
    /\ port \in Ports
    /\ postgres_relations \in RelationLists
    /\ mongo_relations \in RelationLists
    /\ provision_command \in BOOLEAN
    /\ pc = "idle"
    /\ attempt = 0
    /\ service_responding = FALSE
    /\ observed = <<>>
    /\ sleeps = 0
    /\ service_started = FALSE
    /\ announced = {}
    /\ error = "none"
    /\ user \in Users
    /\ child = {}
    /\ called = NoCall

ResolveNext ==
    \/ source_available
    \/ start_application_service
    \/ PipInstall
    \/ ConfigureDatabase
    \/ spawn_provision
    \/ ProvisionDatabase
    \/ StartService
    \/ HealthAttempt
    \/ health_verdict

ResolveSpec == ResolveInit /\ [][ResolveNext]_vars

\* ------------------------------------------- the helpers, called directly
\* the contents a file of environment variables is given to the helpers with
StoreFiles ==
    { <<>>,
      <<"A","=","1","\n">>,
      <<"A","=","1">>,
      <<"A","B","=","1","\n","A","=","2","\n">>,
      <<"#"," ","c","\n","A","=","1","\n","B","=","2">>,
      <<"A","=","1","\n","B","=","2","\n","A","=","3","\n">>,
      <<" ","A","=","1","\n","x"," ","y","\n">> }

\* the incoming_variables set_env_values is called with
Updates ==
    { <<>>,
      << <<<<"A">>, <<"9">>>> >>,
      << <<<<"B">>, <<"7">>>> >>,
      << <<<<"B">>, <<"7">>>>, <<<<"A">>, <<"9">>>> >>,
      << <<<<"C">>, <<"3">>>>, <<<<"B">>, <<"7">>>> >> }

\* the target_key delete_env_value is called with
TargetKeys == { <<"A">>, <<"A","B">>, <<"B">> }

\* the arguments build_url_host is called with: a domain, and each of port,
\* username and password absent (None), empty or given
Domains == { <<"h">> }

PortValues == { None, <<>>, <<"8","0">> }

UsernameValues == { None, <<>>, <<"u">> }

PasswordValues == { None, <<>>, <<"p">> }

HelperInit ==
    /\ states = {}
    /\ env_file \in StoreFiles
    /\ port \in Ports
    /\ postgres_relations = <<>>
    /\ mongo_relations = <<>>
    /\ provision_command = FALSE
    /\ pc = "idle"
    /\ attempt = 0
    /\ service_responding = FALSE
    /\ observed = <<>>
    /\ sleeps = 0
    /\ service_started = FALSE
    /\ announced = {}
    /\ error = "none"
    /\ user = LayerUser
    /\ child = {}
    /\ called = NoCall

call_build_url_host(domain, port_value, username, password) ==
    /\ called' = << "build_url_host",
                    <<domain, port_value, username, password>>,
                    build_url_host(domain, port_value, username, password) >>
    /\ UNCHANGED <<states, env_file, world, pc, locals, service_started,
                   announced, error, user, child>>

call_set_env_values(incoming_variables) ==
    /\ env_file' = set_env_values(env_file, incoming_variables)
    /\ called' = << "set_env_values",
                    <<env_file, incoming_variables>>,
                    set_env_lines(env_file, incoming_variables) >>
    /\ UNCHANGED <<states, world, pc, locals, service_started, announced,
                   error, user, child>>

call_delete_env_value(target_key) ==
    /\ env_file' = delete_env_value(env_file, target_key)
    /\ called' = << "delete_env_value",
                    <<env_file, target_key>>,
                    delete_env_lines(env_file, target_key) >>
    /\ UNCHANGED <<states, world, pc, locals, service_started, announced,
                   error, user, child>>

CallBuildUrlHost ==
    \E domain \in Domains, port_value \in PortValues,
       username \in UsernameValues, password \in PasswordValues :
        call_build_url_host(domain, port_value, username, password)

CallSetEnvValues ==
    \E incoming_variables \in Updates : call_set_env_values(incoming_variables)

CallDeleteEnvValue ==
    \E target_key \in TargetKeys : call_delete_env_value(target_key)

HelperNext ==
    \/ CallBuildUrlHost
    \/ CallSetEnvValues
    \/ CallDeleteEnvValue

HelperSpec == HelperInit /\ [][HelperNext]_vars

\* ------------------------------------------------------------ the claims
PassFlags == {"wsgi.configured", "wsgi.system.ready", "wsgi.source.available"}

\* a step that ends a pass with an exception
PassFails == pc # "idle" /\ pc' = "idle" /\ error' # "none"

\* C1: a pass that ends in a fatal error (a failed command, a failed read or
\* write of the environment file, the health loop exhausted) ends with
\* wsgi.available unset, whatever the flag was when the pass began.
C1_FailedPassUnavailable ==
    [][PassFails => "wsgi.available" \notin states']_vars

\* a pass has just ended in socket.error after a service start that worked
C1_Witness ==
    /\ pc = "idle"
    /\ error = "socket.error"
    /\ service_started
    /\ "wsgi.available" \notin states

\* the loop has ended and the predicate was false every time
AlwaysFalse ==
    /\ pc = "verdict"
    /\ \A i \in 1..Len(observed) : ~observed[i]

\* C2: a predicate that is always false ends the loop in failure after
\* exactly 10 evaluations and exactly 9 sleeps.
C2_ExhaustedTenEvaluationsNineSleeps ==
    AlwaysFalse =>
        /\ ~service_responding
        /\ Len(observed) = MaxAttempts
        /\ sleeps = MaxAttempts - 1

\* the predicate was first true at its k-th evaluation
FirstTrueAt(k) ==
    /\ Len(observed) >= k
    /\ observed[k]
    /\ \A j \in 1..(k - 1) : ~observed[j]

C4_AnnouncedOnlyWhenAvailable ==
    [][send_port => "wsgi.available" \in states]_vars

\* C5: handling config-changed while wsgi.available holds clears
\* wsgi.available.
C5_ConfigChangedClearsAvailable ==
    [][(ConfigChanged /\ error' = "none" /\ "wsgi.available" \in states)
          => "wsgi.available" \notin states']_vars

\* C6: a database-relation event delivered after a completed pass, with
\* wsgi.system.ready and wsgi.configured set, clears wsgi.available and
\* starts a new pass.
C6_RelationEventStartsPass ==
    [][(/\ DatabaseRelation
        /\ {"wsgi.system.ready", "wsgi.configured", "wsgi.available"}
               \subseteq states)
          => (pc' = "pip" /\ "wsgi.available" \notin states')]_vars

\* C7: a pass starts only where wsgi.configured, wsgi.system.ready and
\* wsgi.source.available all hold, by the state trigger or by a
\* database-relation event; a database-relation event delivered with one of
\* them unset starts no pass and changes no flag and no stored value.
C7_PassStartsOnlyUnderGuard ==
    [][ /\ (pc = "idle" /\ pc' # "idle") => PassFlags \subseteq states
        /\ (DatabaseRelation /\ ~(PassFlags \subseteq states)) =>
              /\ pc' = "idle"
              /\ UNCHANGED <<states, env_file, port, provision_command,
                             service_started, announced>>
      ]_vars

\* a relation event was delivered to a unit that never was system-ready, so
\* with the guard false, and it left the other two flags and the unit idle
C7_Witness ==
    /\ pc = "idle"
    /\ postgres_relations # <<>>
    /\ "wsgi.system.ready" \notin states
    /\ {"wsgi.configured", "wsgi.source.available"} \subseteq states
    /\ env_file \in InitialFiles

\* C8: wsgi.system.ready, wsgi.configured and wsgi.ready are never cleared;
\* wsgi.source.available and wsgi.available are cleared only by the first
\* step of a pass.
C8_FlagsMonotonic ==
    [][\A flag \in WsgiFlags :
          (flag \in states /\ flag \notin states') =>
              /\ flag \in {"wsgi.source.available", "wsgi.available"}
              /\ pc = "idle"
              /\ pc' = "pip"
      ]_vars

\* a later pass has begun: it cleared wsgi.source.available and
\* wsgi.available and kept the three other flags
C8_Witness ==
    /\ pc = "pip"
    /\ service_started
    /\ states \cap WsgiFlags
           = {"wsgi.system.ready", "wsgi.configured", "wsgi.ready"}

\* the file has no line for DATABASE_URL
NoDatabaseUrlLine ==
    \A i \in 1..Len(readlines(env_file)) :
        ~startswith(readlines(env_file)[i], s_DATABASE_URL \o <<"=">>)

\* C9: with wsgi.system.ready and wsgi.configured set, no database relation,
\* every command succeeding and the health predicate true at the first
\* attempt: once wsgi.source.available is set a pass runs, the file ends with
\* no DATABASE_URL line, the service is started and wsgi.available is set;
\* the port is then announced to a consumer that is available.
C9_ScenarioA ==
    /\ ("wsgi.source.available" \in states) ~>
           (/\ pc = "idle"
            /\ "wsgi.available" \in states
            /\ "wsgi.source.available" \notin states
            /\ service_started
            /\ NoDatabaseUrlLine)
    /\ ({"wsgi.available", "website.available"} \subseteq states) ~>
           (announced = {port} /\ "wsgi.available" \in states)

\* the pass has run on a file that held a DATABASE_URL, and the port has
\* been announced to the consumer of the available service
C9_Witness ==
    /\ pc = "idle"
    /\ {"wsgi.available", "website.available"} \subseteq states
    /\ service_started
    /\ env_file = <<>>
    /\ announced = {port}

\* text has part in it
contains(text, part) ==
    \E i \in 1..(Len(text) - Len(part) + 1) :
        SubSeq(text, i, i + Len(part) - 1) = part

\* the URL of each record of RelationRecords, after the scheme
url_after_scheme(record) ==
    CASE record.__unit__ = <<"a">> ->
             <<":","/","/","a","p","p","@","d","b","1",":","5","4","3","2">>
      [] record.__unit__ = <<"b">> ->
             <<":","/","/","u",":","p","@","h","/","d">>
      [] record.__unit__ = <<"c">> ->
             <<":","/","/","h","2",":","2","7","0","1","7">>

\* the file holds the line DATABASE_URL=url and no other DATABASE_URL line
StoredUrl(url) ==
    LET line == s_DATABASE_URL \o <<"=">> \o url \o <<"\n">>
        lines == readlines(env_file)
    IN  /\ contains(env_file, line)
        /\ \A i \in 1..Len(lines) :
              startswith(lines[i], s_DATABASE_URL \o <<"=">>) => lines[i] = line

\* C10: in a pass a non-empty postgres list wins over mongo (scheme
\* postgresql), otherwise a non-empty mongo list is used (scheme mongodb),
\* otherwise no relation is resolved; the first record of the winning kind
\* alone determines the DATABASE_URL that is stored.
C10_RelationResolution ==
    pc \in {"provision", "service"} =>
        IF postgres_relations # <<>>
        THEN StoredUrl(s_postgresql \o url_after_scheme(postgres_relations[1]))
        ELSE IF mongo_relations # <<>>
        THEN StoredUrl(s_mongodb \o url_after_scheme(mongo_relations[1]))
        ELSE NoDatabaseUrlLine

\* the pass has stored the URL of the first of two postgres records while a
\* mongo record is related too
C10_Witness ==
    /\ pc = "service"
    /\ Len(postgres_relations) = 2
    /\ postgres_relations[1].__unit__ = <<"b">>
    /\ mongo_relations # <<>>
    /\ mongo_relations[1].__unit__ = <<"a">>

\* the lines of a file that do not declare DATABASE_URL
OtherLines(content) ==
    SelectSeq(readlines(content), LAMBDA line : line_key(line) # s_DATABASE_URL)

\* C11: when a pass resolves no database relation (both relation lists are
\* empty), its database step leaves a store that reads back without a
\* DATABASE_URL key, and every line that declared another key, or none, is
\* kept as it was and where it was, whatever the store held before.
C11_NoRelationRemovesStoredUrl ==
    [][ ( /\ pc = "database"
          /\ pc' # "idle"
          /\ postgres_relations = <<>>
          /\ mongo_relations = <<>> )
        => /\ ~dict_has(get_env(env_file'), s_DATABASE_URL)
           /\ readlines(env_file') = OtherLines(env_file)
      ]_vars

\* a later pass (the service had been started before) has done its database
\* step with no relation attached, and the store reads back no DATABASE_URL
C11_Witness ==
    /\ pc = "service"
    /\ postgres_relations = <<>>
    /\ mongo_relations = <<>>
    /\ service_started
    /\ env_file # <<>>
    /\ ~dict_has(get_env(env_file), s_DATABASE_URL)

\* C12: build_url_host, the host always given, returns the host alone, with
\* ":port" after it when the port is truthy, with "user@" before it only
\* when a username is given, and with "user:password@" only when both are
\* given; a password without a username adds nothing.  Given means neither
\* None nor empty.
C12_BuildUrlHostMatrix ==
    called[1] = "build_url_host" =>
        LET domain == called[2][1]
            has_port == truthy(called[2][2])
            has_username == truthy(called[2][3])
            has_password == truthy(called[2][4])
            before ==
                CASE has_username /\ has_password ->
                         called[2][3] \o <<":">> \o called[2][4] \o <<"@">>
                  [] has_username /\ ~has_password -> called[2][3] \o <<"@">>
                  [] OTHER -> <<>>
            after == IF has_port THEN <<":">> \o called[2][2] ELSE <<>>
        IN  called[3] = before \o domain \o after

\* build_url_host was given a password and no username and returned the
\* host with its port
C12_Witness ==
    /\ called[1] = "build_url_host"
    /\ called[2] = << <<"h">>, <<"8","0">>, None, <<"p">> >>
    /\ called[3] = <<"h", ":", "8", "0">>

\* the relation record of scenario B: host db1, port 5432, user app, neither
\* password nor database
ScenarioBRelation ==
    /\ postgres_relations # <<>>
    /\ DOMAIN postgres_relations[1] = {"__unit__", "host", "port", "user"}
    /\ postgres_relations[1].host = <<"d","b","1">>
    /\ postgres_relations[1].port = <<"5","4","3","2">>
    /\ postgres_relations[1].user = <<"a","p","p">>

\* C13 as stated: a pass that resolves the Postgres relation of scenario B
\* stores the DATABASE_URL postgresql://app@db1:5432/ with a trailing slash.
C13_ScenarioB_TrailingSlash ==
    (pc \in {"provision", "provisioning", "service"} /\ ScenarioBRelation) =>
        StoredUrl(<<"p","o","s","t","g","r","e","s","q","l",":","/","/",
                    "a","p","p","@","d","b","1",":","5","4","3","2","/">>)

\* C13: a pass that resolves the Postgres relation of scenario B stores the
\* DATABASE_URL postgresql://app@db1:5432, with nothing after the port: the
\* empty path of an absent database name adds no slash.
C13_ScenarioB ==
    (pc \in {"provision", "provisioning", "service"} /\ ScenarioBRelation) =>
        StoredUrl(<<"p","o","s","t","g","r","e","s","q","l",":","/","/",
                    "a","p","p","@","d","b","1",":","5","4","3","2">>)

\* the pass has stored the URL of the relation of scenario B, the only
\* relation, and goes on to start the service
C13_Witness ==
    /\ pc = "service"
    /\ ScenarioBRelation
    /\ Len(postgres_relations) = 1
    /\ mongo_relations = <<>>
    /\ contains(env_file, <<"=","p","o","s","t","g","r","e","s","q","l",":">>)

\* the keys the lines of a file declare
declared_keys(content) ==
    {line_key(line) : line \in {readlines(content)[i] :
                                   i \in 1..Len(readlines(content))}} \ {None}

\* C14: set_env_values(file, U) writes, and returns, the lines of the file
\* in their places, a line whose key is in U replaced by "key=U[key]" and
\* every other line as it was, and after all of them one line "key=value"
\* for each key of U that no line of the file declares, in U's order.
C14_MergeKeepsPositions ==
    called[1] = "set_env_values" =>
        LET before == readlines(called[2][1])
            incoming == called[2][2]
            after == called[3]
            absent == SelectSeq(incoming,
                          LAMBDA kv : kv[1] \notin declared_keys(called[2][1]))
        IN  /\ Len(after) = Len(before) + Len(absent)
            /\ \A i \in 1..Len(before) :
                  after[i] =
                      IF line_key(before[i]) \in dict_keys(incoming)
                      THEN line_key(before[i]) \o <<"=">>
                               \o dict_get(incoming, line_key(before[i]))
                               \o <<"\n">>
                      ELSE before[i]
            /\ \A j \in 1..Len(absent) :
                  after[Len(before) + j] =
                      absent[j][1] \o <<"=">> \o absent[j][2] \o <<"\n">>
            /\ env_file = writelines(after)

\* set_env_values was given AB=1, A=2 and {B: 7, A: 9}: A is rewritten in
\* the second line, AB is kept, B is appended
C14_Witness ==
    /\ called[1] = "set_env_values"
    /\ called[2][1] = <<"A","B","=","1","\n","A","=","2","\n">>
    /\ called[2][2] = << <<<<"B">>, <<"7">>>>, <<<<"A">>, <<"9">>>> >>
    /\ env_file = <<"A","B","=","1","\n","A","=","9","\n","B","=","7","\n">>

\* C15: after delete_env_value(file, key), get_env(file) has no entry for
\* key, and the file holds the lines it had that do not start with "key=",
\* unchanged and in their order; a line of a longer key that begins with key
\* is one of them.
C15_DeleteThenRead ==
    called[1] = "delete_env_value" =>
        LET before == readlines(called[2][1])
            target_key == called[2][2]
        IN  /\ ~dict_has(get_env(env_file), target_key)
            /\ readlines(env_file) =
                   SelectSeq(before,
                       LAMBDA line :
                           SubSeq(line, 1, Len(target_key) + 1)
                               # target_key \o <<"=">>)

\* delete_env_value was given AB=1, A=2 and the key A: the line of AB stays
C15_Witness ==
    /\ called[1] = "delete_env_value"
    /\ called[2][1] = <<"A","B","=","1","\n","A","=","2","\n">>
    /\ called[2][2] = <<"A">>
    /\ env_file = <<"A","B","=","1","\n">>

\* C16: set_env_values is idempotent: for every file content, one whose last
\* line has no newline included, and every mapping U, a second call with the
\* same U, directly after the first, leaves the file as the first call left
\* it.
C16_MergeIdempotent ==
    [][ \A incoming_variables \in Updates :
            ( /\ called[1] = "set_env_values"
              /\ called[2][2] = incoming_variables
              /\ call_set_env_values(incoming_variables) )
            => env_file' = env_file
      ]_vars

\* C18: read after merge: for every file content, one whose last line has no
\* newline included, and every mapping U, get_env of the file that
\* set_env_values(file, U) has written gives every key of U the value U has
\* for it.
C18_ReadAfterMerge ==
    called[1] = "set_env_values" =>
        \A i \in 1..Len(called[2][2]) :
            /\ dict_has(get_env(env_file), called[2][2][i][1])
            /\ dict_get(get_env(env_file), called[2][2][i][1])
                   = called[2][2][i][2]

\* C17: the provisioning command runs demoted to the layer's user: its uid
\* is the user's pw_uid and its gid is the user's pw_gid, whatever the user
\* record, one with pw_uid different from pw_gid included.
C17_ProvisioningChildDemoted ==
    \A process \in child :
        /\ process.uid = user.pw_uid
        /\ process.gid = user.pw_gid

\* C19: from the state with no flag set, whenever no handler runs and
\* wsgi.available is set, wsgi.system.ready, wsgi.configured and wsgi.ready
\* are set too; and wsgi.available is set only by the last step of a pass,
\* one that started under the guard, has set wsgi.ready and has found the
\* service responding.
C19_AvailableImpliesReady ==
    /\ [](( pc = "idle" /\ "wsgi.available" \in states )
           => {"wsgi.system.ready", "wsgi.configured", "wsgi.ready"}
                  \subseteq states)
    /\ [][ ( "wsgi.available" \notin states /\ "wsgi.available" \in states' )
           => /\ pc = "verdict"
              /\ pc' = "idle"
              /\ service_responding
              /\ observed # <<>>
              /\ observed[Len(observed)]
              /\ {"wsgi.system.ready", "wsgi.configured", "wsgi.ready"}
                     \subseteq states
         ]_vars

\* a pass has ended with wsgi.available set, and no handler runs
C19_Witness ==
    /\ pc = "idle"
    /\ error = "none"
    /\ {"wsgi.available", "wsgi.ready"} \subseteq states
    /\ service_started

\* C20: every pass consumes wsgi.source.available: a pass starts only where
\* the flag is set and clears it in its first step, the flag stays clear
\* while the pass runs, and only the source-available trigger sets it.  So
\* each pass start uses up one firing of the trigger (the passes started
\* never outnumber the firings), a database-relation event starts at most
\* one pass, and where the flag is clear, after a failed pass for one, no
\* config-changed or database-relation event starts a pass.
C20_PassConsumesSourceAvailable ==
    /\ [](pc # "idle" => "wsgi.source.available" \notin states)
    /\ [][ /\ (pc = "idle" /\ pc' # "idle")
              => ( /\ "wsgi.source.available" \in states
                   /\ "wsgi.source.available" \notin states'
                   /\ pc' = "pip" )
           /\ ( /\ "wsgi.source.available" \notin states
                /\ "wsgi.source.available" \in states' )
              => source_available
           /\ ( /\ pc = "idle"
                /\ "wsgi.source.available" \notin states
                /\ pc' # "idle" \/ "wsgi.source.available" \in states' )
              => ~(ConfigChanged \/ DatabaseRelation)
         ]_vars

\* a pass has failed its health check and left the unit idle with
\* wsgi.source.available consumed and the other two flags of the guard set
C20_Witness ==
    /\ pc = "idle"
    /\ error = "socket.error"
    /\ "wsgi.source.available" \notin states
    /\ {"wsgi.configured", "wsgi.system.ready"} \subseteq states
    /\ postgres_relations # <<>>

====
